---- MODULE Spec2Model ----
(***************************************************************************)
(* The chat proxy worker of worker/src/index.js: a per-client fixed-window *)
(* rate limiter (isRateLimited over the process-wide map ipHits), the CORS *)
(* decision (corsHeaders) and the fetch handler, cut at its three awaits   *)
(* (request.json(), fetch(geminiUrl), geminiRes.json()).                   *)
(***************************************************************************)
EXTENDS Integers, Sequences, FiniteSets, TLC

VARIABLES
    now,      \* Date.now(), in ms
    env,      \* the worker's bindings: ALLOWED_ORIGIN, GEMINI_API_KEY
    ipHits,   \* the Map ipHits: client identifier -> [start, count]
    inv,      \* the handler invocations in flight, one per slot
    win,      \* history: per client, the window the claims count requests in
    passed    \* history: per client, when requests got past the limiter

vars == <<now, env, ipHits, inv, win, passed>>

----------------------------------------------------------------------------
(* JavaScript values *)

null == "<null>"
undefined == "<undefined>"

\* a || b on strings: b when a is null, undefined or the empty string
Or(a, b) == IF a \in {null, undefined, ""} THEN b ELSE a

\* !v on the values a JSON field can hold here
Falsy(v) == v \in {null, undefined, ""}

\* String.prototype.startsWith
startsWith(s, prefix) ==
    /\ Len(s) >= Len(prefix)
    /\ SubSeq(s, 1, Len(prefix)) = prefix

----------------------------------------------------------------------------
(* Rate limiter *)

RATE_LIMIT == 15
RATE_WINDOW == 60000

\* Map.prototype.set
MapSet(m, k, v) == [x \in (DOMAIN m) \cup {k} |-> IF x = k THEN v ELSE m[x]]

\* variant: returns before the increment once the limit is reached
isRateLimited_NoIncrementWhenLimited(hits, ip, t) ==
    IF ip \notin DOMAIN hits \/ t - hits[ip].start > RATE_WINDOW
    THEN [limited |-> FALSE, ipHits |-> MapSet(hits, ip, [start |-> t, count |-> 1])]
    ELSE IF hits[ip].count >= RATE_LIMIT
         THEN [limited |-> TRUE, ipHits |-> hits]
         ELSE [limited |-> FALSE,
               ipHits |-> MapSet(hits, ip, [hits[ip] EXCEPT !.count = @ + 1])]

\* variant: the threshold is one too high
isRateLimited_OffByOne(hits, ip, t) ==
    IF ip \notin DOMAIN hits \/ t - hits[ip].start > RATE_WINDOW
    THEN [limited |-> FALSE, ipHits |-> MapSet(hits, ip, [start |-> t, count |-> 1])]
    ELSE [limited |-> hits[ip].count + 1 > RATE_LIMIT + 1,
          ipHits |-> MapSet(hits, ip, [hits[ip] EXCEPT !.count = @ + 1])]

\* variant: every request moves the start of the window
isRateLimited_SlidingStart(hits, ip, t) ==
    IF ip \notin DOMAIN hits \/ t - hits[ip].start > RATE_WINDOW
    THEN [limited |-> FALSE, ipHits |-> MapSet(hits, ip, [start |-> t, count |-> 1])]
    ELSE [limited |-> hits[ip].count + 1 > RATE_LIMIT,
          ipHits |-> MapSet(hits, ip, [start |-> t, count |-> hits[ip].count + 1])]

\* isRateLimited(ip) at time t on table hits: what it returns and the table
\* it leaves
isRateLimited(hits, ip, t) ==
    IF ip \notin DOMAIN hits \/ t - hits[ip].start > RATE_WINDOW
    THEN [limited |-> FALSE, ipHits |-> MapSet(hits, ip, [start |-> t, count |-> 1])]
    ELSE [limited |-> hits[ip].count + 1 > RATE_LIMIT,
          ipHits |-> MapSet(hits, ip, [hits[ip] EXCEPT !.count = @ + 1])]

----------------------------------------------------------------------------
(* CORS policy *)

\* variant: the local development origin is not listed
corsHeaders_PrefixOnly(origin, allowed) ==
    LET isAllowed == \/ origin = allowed
                     \/ (origin # null /\ origin # undefined
                           /\ startsWith(origin, "http://127.0.0.1"))
    IN  [AllowOrigin  |-> IF isAllowed THEN origin ELSE allowed,
         AllowMethods |-> "POST, OPTIONS",
         AllowHeaders |-> "Content-Type",
         MaxAge       |-> "86400"]

corsHeaders(origin, allowed) ==
    LET isAllowed == \/ origin = allowed
                     \/ origin = "http://localhost:5500"
                     \/ (origin # null /\ origin # undefined
                           /\ startsWith(origin, "http://127.0.0.1"))
    IN  [AllowOrigin  |-> IF isAllowed THEN origin ELSE allowed,
         AllowMethods |-> "POST, OPTIONS",
         AllowHeaders |-> "Content-Type",
         MaxAge       |-> "86400"]

----------------------------------------------------------------------------
(* The responses of the handler, one operator per return statement *)

NoHeaders ==
    [AllowOrigin |-> undefined, AllowMethods |-> undefined,
     AllowHeaders |-> undefined, MaxAge |-> undefined]

\* new Response(null, { status, headers })
EmptyResponse(status, headers) ==
    [status |-> status, error |-> undefined, reply |-> undefined, headers |-> headers]

\* Response.json({ error }, { status, headers })
ErrorResponse(error, status, headers) ==
    [status |-> status, error |-> error, reply |-> undefined, headers |-> headers]

\* Response.json({ reply }, { headers }): the status defaults to 200
ReplyResponse(reply, headers) ==
    [status |-> 200, error |-> undefined, reply |-> reply, headers |-> headers]

Preflight(headers) == EmptyResponse(204, headers)

\* variant: the 404 is returned without the headers
NotFound_NoCors(headers) == ErrorResponse("Not found", 404, NoHeaders)

NotFound(headers) == ErrorResponse("Not found", 404, headers)

TooManyRequests(headers) ==
    ErrorResponse("Too many requests. Please wait a moment.", 429, headers)

InvalidJSON(headers) == ErrorResponse("Invalid JSON", 400, headers)

MissingFields(headers) == ErrorResponse("Missing messages or systemPrompt", 400, headers)

KeyNotConfigured(headers) == ErrorResponse("API key not configured", 500, headers)

Unreachable(headers) == ErrorResponse("Failed to reach Gemini API", 502, headers)

SafetyFiltered(headers) == ErrorResponse("Response filtered for safety", 400, headers)

\* err.error?.message || `Gemini API error ${geminiRes.status}`
UpstreamError(err, status, headers) ==
    ErrorResponse(Or(err.message, "Gemini API error " \o ToString(status)),
                  status, headers)

\* data.candidates?.[0]
FirstCandidate(data) ==
    IF data.candidates = <<>>
    THEN [finishReason |-> undefined, text |-> undefined]
    ELSE data.candidates[1]

\* candidate?.content?.parts?.[0]?.text || 'Sorry, I could not generate a response.'
Reply(candidate, headers) ==
    ReplyResponse(Or(candidate.text, "Sorry, I could not generate a response."),
                  headers)

----------------------------------------------------------------------------
(* The handler, from one await to the next.  Each operator gives where the *)
(* invocation stands afterwards: pc "done" with the response it returned,   *)
(* pc "thrown" when an exception left the handler, or the await it is at.  *)

Done(response) == [pc |-> "done", res |-> <<response>>]
Thrown == [pc |-> "thrown", res |-> <<>>]
Await(pc) == [pc |-> pc, res |-> <<>>]

IsChatPost(r) == r.pathname = "/api/chat" /\ r.method = "POST"

\* request.headers.get('CF-Connecting-IP') || 'unknown'
ClientOf(r) == Or(r.CFConnectingIP, "unknown")

\* the headers of lines 29-31
HeadersOf(r, e) ==
    corsHeaders(Or(r.Origin, ""),
                Or(e.ALLOWED_ORIGIN, "https://poomxchapon.github.io"))

\* variant: the rate limit is checked before the route
fetchStart_LimitBeforeRoute(r, e, hits, t) ==
    LET headers == HeadersOf(r, e)
        rl      == isRateLimited(hits, ClientOf(r), t)
    IN  IF r.method = "OPTIONS"
        THEN Done(Preflight(headers)) @@ [ipHits |-> hits]
        ELSE IF rl.limited
        THEN Done(TooManyRequests(headers)) @@ [ipHits |-> rl.ipHits]
        ELSE IF r.pathname # "/api/chat" \/ r.method # "POST"
        THEN Done(NotFound(headers)) @@ [ipHits |-> rl.ipHits]
        ELSE Await("body") @@ [ipHits |-> rl.ipHits]

\* from the request's arrival to await request.json()
fetchStart(r, e, hits, t) ==
    LET headers == HeadersOf(r, e)
        rl      == isRateLimited(hits, ClientOf(r), t)
    IN  IF r.method = "OPTIONS"
        THEN Done(Preflight(headers)) @@ [ipHits |-> hits]
        ELSE IF r.pathname # "/api/chat" \/ r.method # "POST"
        THEN Done(NotFound(headers)) @@ [ipHits |-> hits]
        ELSE IF rl.limited
        THEN Done(TooManyRequests(headers)) @@ [ipHits |-> rl.ipHits]
        ELSE Await("body") @@ [ipHits |-> rl.ipHits]

\* from request.json() settling to await fetch(geminiUrl, ...); calls is the
\* number of outbound calls issued.  Destructuring null (line 61) throws
\* outside any try; a number or a string destructures to undefined fields.
fetchBody(body, e, headers) ==
    IF body.json = "malformed"
    THEN Done(InvalidJSON(headers)) @@ [calls |-> 0]
    ELSE IF body.json = "null"
    THEN Thrown @@ [calls |-> 0]
    ELSE IF Falsy(body.messages) \/ Falsy(body.systemPrompt)
    THEN Done(MissingFields(headers)) @@ [calls |-> 0]
    ELSE IF Falsy(e.GEMINI_API_KEY)
    THEN Done(KeyNotConfigured(headers)) @@ [calls |-> 0]
    ELSE Await("fetch") @@ [calls |-> 1]

\* variant: a failed call is issued again
fetchSettled_RetryOnError(o, headers) ==
    IF o.kind = "reject"
    THEN Await("fetch") @@ [calls |-> 1, status |-> 0]
    ELSE IF ~o.ok
    THEN Await("fetch") @@ [calls |-> 1, status |-> 0]
    ELSE Await("data") @@ [calls |-> 0, status |-> o.status]

\* from fetch(geminiUrl) settling to await geminiRes.json()
fetchSettled(o, headers) ==
    IF o.kind = "reject"
    THEN Done(Unreachable(headers)) @@ [calls |-> 0, status |-> 0]
    ELSE IF ~o.ok
    THEN Await("error") @@ [calls |-> 0, status |-> o.status]
    ELSE Await("data") @@ [calls |-> 0, status |-> o.status]

\* geminiRes.json().catch(() => ({})) settling, for a non-ok response: a
\* body that is not JSON reads as {}.  A body of JSON null makes err.error
\* throw inside the try: the catch of line 103 answers.
fetchError(err, status, headers) ==
    IF err.json = "unreadable"
    THEN Done(UpstreamError([err EXCEPT !.message = undefined], status, headers))
    ELSE IF err.json = "null"
    THEN Done(Unreachable(headers))
    ELSE Done(UpstreamError(err, status, headers))

\* variant: a candidate's text is returned before its finishReason is looked at
fetchData_TextBeforeSafety(data, headers) ==
    IF data.json \in {"unreadable", "null"}
    THEN Done(Unreachable(headers))
    ELSE IF ~Falsy(FirstCandidate(data).text)
    THEN Done(Reply(FirstCandidate(data), headers))
    ELSE IF FirstCandidate(data).finishReason = "SAFETY"
    THEN Done(SafetyFiltered(headers))
    ELSE Done(Reply(FirstCandidate(data), headers))

\* geminiRes.json() settling, for an ok response.  A body that is not JSON
\* rejects, and JSON null makes data.candidates throw: both inside the try.
fetchData(data, headers) ==
    IF data.json \in {"unreadable", "null"}
    THEN Done(Unreachable(headers))
    ELSE IF FirstCandidate(data).finishReason = "SAFETY"
    THEN Done(SafetyFiltered(headers))
    ELSE Done(Reply(FirstCandidate(data), headers))

----------------------------------------------------------------------------
(* Bounds and the inputs drawn *)

MaxOver == 2       \* requests of one client modelled beyond RATE_LIMIT, per window
MaxTicks == 2      \* the clock is modelled up to MaxTicks windows and one ms
MaxInFlight == 2   \* handler invocations in flight at once

Slots == 1..MaxInFlight

\* the clock advances by one ms or by a whole window
Steps == {1, RATE_WINDOW}
Instants == {a * RATE_WINDOW + b : a \in 0..MaxTicks, b \in 0..1}

Methods == {"OPTIONS", "GET", "POST"}
Paths == {"/api/chat", "/other/path"}
IPs == {null, "203.0.113.7"}
Clients == {"unknown", "203.0.113.7"}

\* request.json(): not JSON, JSON null, a JSON number, or an object with the
\* fields it has
Body(json, messages, systemPrompt) ==
    [json |-> json, messages |-> messages, systemPrompt |-> systemPrompt]
ChatBody == Body("object", "[{role,parts}]", "You are a guide.")
Bodies ==
    { Body("malformed", undefined, undefined),
      Body("null", undefined, undefined),
      Body("number", undefined, undefined),
      Body("object", undefined, undefined),
      Body("object", "[{role,parts}]", undefined),
      Body("object", undefined, "You are a guide."),
      Body("object", "[{role,parts}]", ""),
      ChatBody }

Requests ==
    [method : Methods, pathname : Paths, CFConnectingIP : IPs, body : Bodies,
     Origin : {null, "http://localhost:5500", "https://evil.example"}]

\* the well-formed chat requests of the two clients
ChatRequests ==
    [method : {"POST"}, pathname : {"/api/chat"}, CFConnectingIP : IPs,
     body : {ChatBody}, Origin : {"https://poomxchapon.github.io"}]

Envs ==
    [ALLOWED_ORIGIN : {undefined, "https://chat.example"},
     GEMINI_API_KEY : {undefined, "key"}]

\* how fetch(geminiUrl) settles
Rejected == [kind |-> "reject", ok |-> FALSE, status |-> 0]
Answered(status) ==
    [kind |-> "response", ok |-> (status >= 200 /\ status <= 299), status |-> status]
Outcomes == {Rejected, Answered(200), Answered(429), Answered(503)}

\* what geminiRes.json() reads: not JSON, JSON null, a JSON number, or an
\* object with its error.message and its candidates (finishReason and
\* content.parts[0].text of each)
Upstream(json, message, candidates) ==
    [json |-> json, message |-> message, candidates |-> candidates]
NotRead == Upstream(undefined, undefined, <<>>)
Candidate(finishReason, text) == [finishReason |-> finishReason, text |-> text]
Answer == Upstream("object", undefined, <<Candidate("STOP", "Hello")>>)

\* the body of a non-ok upstream response
ErrBodies ==
    { Upstream("unreadable", undefined, <<>>),
      Upstream("null", undefined, <<>>),
      Upstream("object", undefined, <<>>),
      Upstream("object", "Quota exceeded", <<>>) }

\* the body of an ok upstream response
DataBodies ==
    { Upstream("unreadable", undefined, <<>>),
      Upstream("null", undefined, <<>>),
      Upstream("number", undefined, <<>>),
      Upstream("object", undefined, <<>>),
      Upstream("object", undefined, <<Candidate("SAFETY", "Blocked text")>>),
      Upstream("object", undefined, <<Candidate("SAFETY", undefined)>>),
      Answer,
      Upstream("object", undefined, <<Candidate("STOP", "")>>),
      Upstream("object", undefined, <<Candidate("MAX_TOKENS", undefined)>>),
      Upstream("object", undefined,
               <<Candidate("STOP", "Hello"), Candidate("SAFETY", "Other")>>) }

----------------------------------------------------------------------------
(* State *)

NoRequest ==
    [method |-> undefined, pathname |-> undefined, CFConnectingIP |-> undefined,
     body |-> Body(undefined, undefined, undefined), Origin |-> undefined]

\* no invocation in the slot
Idle ==
    [pc |-> "idle", req |-> NoRequest, headers |-> NoHeaders, res |-> <<>>,
     calls |-> 0, status |-> 0, read |-> NotRead]

\* history: the window of client c after a POST /api/chat of c at time t:
\* first is the time of the request that opened it, n the requests counted
\* in it, adm those of them that got past the limiter, over whether an
\* earlier window of c had requests rejected
ObserveWindow(w, c, t, admitted) ==
    IF c \notin DOMAIN w \/ t - w[c].first > RATE_WINDOW
    THEN [first |-> t, n |-> 1, adm |-> IF admitted THEN 1 ELSE 0,
          over |-> c \in DOMAIN w /\ (w[c].over \/ w[c].n > w[c].adm)]
    ELSE [w[c] EXCEPT !.n = @ + 1, !.adm = IF admitted THEN @ + 1 ELSE @]

\* the isolate starts: the table is empty and nothing is in flight
Fresh ==
    /\ now = 0
    /\ ipHits = << >>
    /\ inv = [s \in Slots |-> Idle]
    /\ win = << >>
    /\ passed = << >>

----------------------------------------------------------------------------
(* Actions *)

\* a request arrives and the handler runs to its first await or return
Arrive(s, r) ==
    /\ inv[s].pc = "idle"
    /\ LET st == fetchStart(r, env, ipHits, now)
           c  == ClientOf(r)
       IN  /\ ipHits' = st.ipHits
           /\ win' = IF IsChatPost(r)
                     THEN MapSet(win, c, ObserveWindow(win, c, now, st.pc = "body"))
                     ELSE win
           /\ inv' = [inv EXCEPT ![s] =
                        [pc |-> st.pc, req |-> r, headers |-> HeadersOf(r, env),
                         res |-> st.res, calls |-> 0, status |-> 0,
                         read |-> NotRead]]
    /\ UNCHANGED <<now, env>>

\* request.json() settles
BodyRead(s) ==
    /\ inv[s].pc = "body"
    /\ LET st == fetchBody(inv[s].req.body, env, inv[s].headers)
       IN  inv' = [inv EXCEPT ![s].pc = st.pc, ![s].res = st.res,
                              ![s].calls = @ + st.calls]
    /\ UNCHANGED <<now, env, ipHits, win, passed>>

\* fetch(geminiUrl) settles
FetchSettles(s, o) ==
    /\ inv[s].pc = "fetch"
    /\ LET st == fetchSettled(o, inv[s].headers)
       IN  inv' = [inv EXCEPT ![s].pc = st.pc, ![s].res = st.res,
                              ![s].calls = @ + st.calls, ![s].status = st.status]
    /\ UNCHANGED <<now, env, ipHits, win, passed>>

\* geminiRes.json() settles, non-ok response
ErrorRead(s, err) ==
    /\ inv[s].pc = "error"
    /\ LET st == fetchError(err, inv[s].status, inv[s].headers)
       IN  inv' = [inv EXCEPT ![s].pc = st.pc, ![s].res = st.res, ![s].read = err]
    /\ UNCHANGED <<now, env, ipHits, win, passed>>

\* geminiRes.json() settles, ok response
DataRead(s, data) ==
    /\ inv[s].pc = "data"
    /\ LET st == fetchData(data, inv[s].headers)
       IN  inv' = [inv EXCEPT ![s].pc = st.pc, ![s].res = st.res, ![s].read = data]
    /\ UNCHANGED <<now, env, ipHits, win, passed>>

\* the runtime takes the handler's result; the invocation is over
Respond(s) ==
    /\ inv[s].pc \in {"done", "thrown"}
    /\ inv' = [inv EXCEPT ![s] = Idle]
    /\ UNCHANGED <<now, env, ipHits, win, passed>>

\* history: the entries of log from the RATE_WINDOW ms up to t
Recent(log, t) == SelectSeq(log, LAMBDA x : t - x <= RATE_WINDOW)

\* the clock advances
Tick(d) ==
    /\ now + d \in Instants
    /\ now' = now + d
    /\ passed' = [c \in DOMAIN passed |-> Recent(passed[c], now')]
    /\ UNCHANGED <<env, ipHits, inv, win>>

\* the model stops a client at RATE_LIMIT + MaxOver requests in one window
WithinBounds(r) ==
    LET c == ClientOf(r)
    IN  IsChatPost(r) /\ c \in DOMAIN win /\ now - win[c].first <= RATE_WINDOW
            => win[c].n < RATE_LIMIT + MaxOver

----------------------------------------------------------------------------
(* Spec: the handler, one invocation at a time, on every kind of request,  *)
(* with the clock held.  The table starts as earlier traffic left it: each *)
(* client has no entry yet (all of them: the isolate has just started), or *)
(* is one request short of RATE_LIMIT in the window open at time 0, where  *)
(* RateSpec gets from the empty table.  A client without an entry sends at *)
(* most MaxOver requests.                                                  *)

WarmEntry == [start |-> 0, count |-> RATE_LIMIT - 1]
WarmWindow == [first |-> 0, n |-> RATE_LIMIT - 1, adm |-> RATE_LIMIT - 1, over |-> FALSE]

Init ==
    /\ now = 0
    /\ env \in Envs
    /\ \E known \in SUBSET Clients :
          /\ ipHits = [c \in known |-> WarmEntry]
          /\ win = [c \in known |-> WarmWindow]
    /\ inv = [s \in Slots |-> Idle]
    /\ passed = << >>

\* the tables Init starts from are tables of the running worker
WarmReached == now = 0 /\ ipHits = [c \in Clients |-> WarmEntry]

WithinWarmBounds(r) ==
    LET c == ClientOf(r)
    IN  /\ WithinBounds(r)
        /\ IsChatPost(r) /\ c \in DOMAIN win => win[c].n # MaxOver

Next ==
    \/ \E r \in Requests : Arrive(1, r) /\ WithinWarmBounds(r) /\ UNCHANGED passed
    \/ BodyRead(1)
    \/ \E o \in Outcomes : FetchSettles(1, o)
    \/ \E err \in ErrBodies : ErrorRead(1, err)
    \/ \E data \in DataBodies : DataRead(1, data)
    \/ Respond(1)

Spec == Init /\ [][Next]_vars

----------------------------------------------------------------------------
(* RateSpec: the two clients' chat requests from the empty table, one     *)
(* invocation at a time, as the clock advances; the upstream answers.      *)

RateEnv == [ALLOWED_ORIGIN |-> undefined, GEMINI_API_KEY |-> "key"]

RateNext ==
    \/ \E r \in ChatRequests : Arrive(1, r) /\ WithinBounds(r) /\ UNCHANGED passed
    \/ BodyRead(1)
    \/ FetchSettles(1, Answered(200))
    \/ DataRead(1, Answer)
    \/ Respond(1)
    \/ \E d \in Steps : Tick(d)

RateInit == Fresh /\ env = RateEnv

RateSpec == RateInit /\ [][RateNext]_vars

----------------------------------------------------------------------------
(* ConcSpec: several invocations of one client's chat requests in flight   *)
(* at once, interleaving at their awaits, as the clock advances.           *)

ClientRequests == {r \in ChatRequests : r.CFConnectingIP = "203.0.113.7"}

ConcNext ==
    \/ \E s \in Slots, r \in ClientRequests :
          Arrive(s, r) /\ WithinBounds(r) /\ UNCHANGED passed
    \/ \E s \in Slots : BodyRead(s)
    \/ \E s \in Slots, o \in {Rejected, Answered(200)} : FetchSettles(s, o)
    \/ \E s \in Slots : DataRead(s, Answer)
    \/ \E s \in Slots : Respond(s)
    \/ \E d \in Steps : Tick(d)

ConcSpec == RateInit /\ [][ConcNext]_vars

----------------------------------------------------------------------------
(* BurstSpec: one client's chat requests, one at a time, as the clock      *)
(* advances, with the history of the requests that got past the limiter.   *)

\* history: a request of client c got past the limiter at time t
Pass(log, c, t) ==
    MapSet(log, c, Append(IF c \in DOMAIN log THEN Recent(log[c], t) ELSE <<>>, t))

ArriveLogged(s, r) ==
    /\ Arrive(s, r)
    /\ WithinBounds(r)
    /\ passed' = IF inv'[s].pc = "body" THEN Pass(passed, ClientOf(r), now) ELSE passed

BurstNext ==
    \/ \E r \in ClientRequests : ArriveLogged(1, r)
    \/ BodyRead(1)
    \/ FetchSettles(1, Answered(200))
    \/ DataRead(1, Answer)
    \/ Respond(1)
    \/ \E d \in Steps : Tick(d)

BurstSpec == RateInit /\ [][BurstNext]_vars

----------------------------------------------------------------------------
(* CorsSpec: corsHeaders as the handler calls it, on requests of many      *)
(* origins under many configured origins.                                  *)

CorsOrigins ==
    { null, "", "https://poomxchapon.github.io", "https://chat.example",
      "http://localhost:5500", "http://localhost:5500/", "http://localhost:550",
      "https://localhost:5500", "http://127.0.0.1", "http://127.0.0.1:8080",
      "http://127.0.0.1.evil.example", "http://127.0.0.2", "http://127.0.0.",
      "https://127.0.0.1", "https://evil.example" }

CorsRequests ==
    [method : {"OPTIONS", "GET"}, pathname : {"/api/chat"}, CFConnectingIP : {null},
     body : {ChatBody}, Origin : CorsOrigins]

CorsEnvs ==
    [ALLOWED_ORIGIN : {undefined, "", "https://chat.example", "http://localhost:5500",
                       "http://127.0.0.2", "https://evil.example"},
     GEMINI_API_KEY : {"key"}]

CorsInit == Fresh /\ env \in CorsEnvs

CorsNext ==
    \/ \E r \in CorsRequests : Arrive(1, r) /\ UNCHANGED passed
    \/ Respond(1)

CorsSpec == CorsInit /\ [][CorsNext]_vars

----------------------------------------------------------------------------
(* What the claims speak of *)

\* the client identifier of a request
ClientId(r) == IF r.CFConnectingIP = null THEN "unknown" ELSE r.CFConnectingIP

\* the Origin header of a request, empty when absent
RequestOrigin(r) == IF r.Origin = null THEN "" ELSE r.Origin

\* the allowed origin the worker is configured with
ConfiguredOrigin(e) ==
    IF e.ALLOWED_ORIGIN \in {undefined, ""}
    THEN "https://poomxchapon.github.io"
    ELSE e.ALLOWED_ORIGIN

HasPrefix(str, prefix) == \E k \in 0..Len(str) : SubSeq(str, 1, k) = prefix

\* invocation i returned the response of this status and error
Answers(i, status, error) ==
    i.pc = "done" /\ i.res[1].status = status /\ i.res[1].error = error

\* invocation i returned 200 with this reply
Replies(i, reply) ==
    i.pc = "done" /\ i.res[1].status = 200 /\ i.res[1].reply = reply

\* slot s took a request in this step
Arrived(s) == inv[s].pc = "idle" /\ inv'[s].pc # "idle"

TooMany == "Too many requests. Please wait a moment."

----------------------------------------------------------------------------
(* C1, under RateSpec *)

\* C1: counting a client's POST /api/chat requests from the one that opens
\* a window, requests 1 to RATE_LIMIT of the window are not rate limited and
\* every later one of the window is answered 429 'Too many requests. Please
\* wait a moment.'  (One invocation at a time: win[c].n is the number of the
\* request in the slot.)
C1_SixteenthIsRejected ==
    inv[1].pc # "idle" =>
        LET c == ClientId(inv[1].req)
        IN  IF win[c].n <= RATE_LIMIT
            THEN ~(inv[1].pc = "done" /\ inv[1].res[1].status = 429)
            ELSE Answers(inv[1], 429, TooMany)

C1_Witness ==
    /\ inv[1].pc # "idle"
    /\ ClientId(inv[1].req) = "unknown"
    /\ win["unknown"].n = RATE_LIMIT + 1
    /\ win["unknown"].adm = RATE_LIMIT
    /\ Answers(inv[1], 429, TooMany)

----------------------------------------------------------------------------
(* C2, under RateSpec *)

\* C2: a request of a client whose window opened more than RATE_WINDOW ms
\* ago replaces the entry by start = now, count = 1 and is not limited,
\* whatever the count was; a request inside the window adds one to the count
\* and leaves the start alone, rejected or not.
C2_ExpiredWindowRestarts ==
    [][\A s \in Slots :
          Arrived(s) /\ ClientId(inv'[s].req) \in DOMAIN win =>
              LET c == ClientId(inv'[s].req)
              IN  IF now - win[c].first > RATE_WINDOW
                  THEN /\ ipHits'[c] = [start |-> now, count |-> 1]
                       /\ inv'[s].pc = "body"
                  ELSE /\ ipHits'[c].start = win[c].first
                       /\ ipHits'[c].count = ipHits[c].count + 1]_vars

\* a client is admitted again, in a window opened now, after requests of an
\* earlier window were rejected
C2_Witness ==
    \E c \in DOMAIN win :
        /\ win[c].over
        /\ now > RATE_WINDOW
        /\ ipHits[c] = [start |-> now, count |-> 1]
        /\ inv[1].pc = "body"
        /\ ClientId(inv[1].req) = c

----------------------------------------------------------------------------
(* C3, under CorsSpec *)

\* C3: Access-Control-Allow-Origin is the request origin exactly when the
\* origin is the configured one, is 'http://localhost:5500' or starts with
\* 'http://127.0.0.1'; otherwise (an absent or empty Origin too) it is the
\* configured origin; the other three headers are fixed.
C3_OriginEchoedIffListed ==
    inv[1].pc # "idle" =>
        LET origin  == RequestOrigin(inv[1].req)
            allowed == ConfiguredOrigin(env)
            h       == inv[1].headers
            listed  == \/ origin = allowed
                       \/ origin = "http://localhost:5500"
                       \/ HasPrefix(origin, "http://127.0.0.1")
        IN  /\ (h.AllowOrigin = origin) <=> listed
            /\ ~listed => h.AllowOrigin = allowed
            /\ h.AllowMethods = "POST, OPTIONS"
            /\ h.AllowHeaders = "Content-Type"
            /\ h.MaxAge = "86400"

C3_Witness ==
    /\ inv[1].pc = "done"
    /\ inv[1].req.Origin = "http://127.0.0.1.evil.example"
    /\ env.ALLOWED_ORIGIN = "https://chat.example"
    /\ inv[1].headers.AllowOrigin = "http://127.0.0.1.evil.example"

----------------------------------------------------------------------------
(* C4, under Spec *)

\* C4: every response the handler returns carries the CORS headers computed
\* from the request's Origin and the configured origin.
C4_EveryResponseCarriesCors ==
    \A s \in Slots :
        inv[s].res # <<>> =>
            inv[s].res[1].headers =
                corsHeaders(RequestOrigin(inv[s].req), ConfiguredOrigin(env))

\* the upstream's status passed through, to a request of a listed origin
C4_Witness ==
    /\ inv[1].pc = "done"
    /\ inv[1].res[1].status = 503
    /\ inv[1].req.Origin = "http://localhost:5500"
    /\ inv[1].res[1].headers.AllowOrigin = "http://localhost:5500"

----------------------------------------------------------------------------
(* C5, under BurstSpec *)

\* C5: in any span of RATE_WINDOW ms, at most 2 * RATE_LIMIT requests of one
\* client get past the limiter.  (passed[c] holds the times, within
\* RATE_WINDOW ms of now, at which requests of c got past: a span that ends
\* at a request that got past is the one ending at now in the state that
\* request leaves.)
C5_AtMostTwiceTheLimit ==
    \A c \in DOMAIN passed :
        /\ Len(passed[c]) <= 2 * RATE_LIMIT
        /\ \A k \in 1..Len(passed[c]) : now - passed[c][k] <= RATE_WINDOW

\* a burst across the boundary of two windows: 2 * RATE_LIMIT - 1 requests
\* got past within RATE_WINDOW ms
C5_Witness ==
    \E c \in DOMAIN passed :
        /\ Len(passed[c]) = 2 * RATE_LIMIT - 1
        /\ passed[c][1] < ipHits[c].start
        /\ ipHits[c].start - passed[c][1] <= RATE_WINDOW

----------------------------------------------------------------------------
(* C6, under Spec *)

\* the response of the first check that fails, in the order preflight,
\* route, rate limit, JSON parse, required fields, credential; status 0 when
\* none fails and the upstream is called
FirstFailing(r, limited, e) ==
    IF r.method = "OPTIONS" THEN [status |-> 204, error |-> undefined]
    ELSE IF r.pathname # "/api/chat" \/ r.method # "POST"
    THEN [status |-> 404, error |-> "Not found"]
    ELSE IF limited THEN [status |-> 429, error |-> TooMany]
    ELSE IF r.body.json = "malformed" THEN [status |-> 400, error |-> "Invalid JSON"]
    ELSE IF r.body.json # "object" \/ Falsy(r.body.messages) \/ Falsy(r.body.systemPrompt)
    THEN [status |-> 400, error |-> "Missing messages or systemPrompt"]
    ELSE IF Falsy(e.GEMINI_API_KEY)
    THEN [status |-> 500, error |-> "API key not configured"]
    ELSE [status |-> 0, error |-> undefined]

\* whether the request in the slot was over its client's limit
OverLimit(r) ==
    /\ IsChatPost(r)
    /\ ClientId(r) \in DOMAIN win
    /\ win[ClientId(r)].n > RATE_LIMIT

\* invocation i stands where the checks' order puts it
InOrder(i) ==
    LET first == FirstFailing(i.req, OverLimit(i.req), env)
    IN  CASE i.pc = "body" -> first.status \notin {204, 404, 429}
          [] i.pc \in {"fetch", "error", "data"} -> first.status = 0
          [] i.pc = "done" ->
                IF first.status = 0
                THEN i.calls = 1
                ELSE Answers(i, first.status, first.error) /\ i.calls = 0
          [] i.pc = "thrown" -> FALSE
          [] OTHER -> TRUE

\* C6: the checks run in the order preflight, route, rate limit, JSON parse,
\* required fields, credential, upstream call, and the response is that of
\* the first check that fails.
C6_FirstFailingCheckAnswers == InOrder(inv[1])

\* the same, for the requests whose body is not JSON null
C6_ExceptNullBody == inv[1].req.body.json # "null" => InOrder(inv[1])

\* a rate-limited request with a malformed body is answered 429
C6_LimitedBeforeParsed ==
    /\ Answers(inv[1], 429, TooMany)
    /\ inv[1].req.body.json = "malformed"

----------------------------------------------------------------------------
(* C7, under Spec *)

Fallback == "Sorry, I could not generate a response."

\* the upstream answered invocation i with a success status
UpstreamOk(i) == i.status >= 200 /\ i.status <= 299

\* what the claim has the handler return on the upstream body d
Translated(i, d) ==
    IF d.candidates # <<>> /\ d.candidates[1].finishReason = "SAFETY"
    THEN Answers(i, 400, "Response filtered for safety")
    ELSE IF d.candidates # <<>> /\ d.candidates[1].text \notin {undefined, ""}
    THEN Replies(i, d.candidates[1].text)
    ELSE Replies(i, Fallback)

\* C7 as stated: when the upstream call succeeds, 400 'Response filtered for
\* safety' if the first candidate's finishReason is 'SAFETY', else 200 with
\* the first candidate's text, or the fallback reply.
C7_SafetyElseReply ==
    \A s \in Slots :
        inv[s].pc = "done" /\ UpstreamOk(inv[s]) => Translated(inv[s], inv[s].read)

\* C7 as amended: so it is when the body of the successful response reads
\* as JSON other than null; when it does not read as JSON, or is null, the
\* handler returns 502 'Failed to reach Gemini API'.
C7_SafetyElseReplyWhenRead ==
    \A s \in Slots :
        inv[s].pc = "done" /\ UpstreamOk(inv[s]) =>
            IF inv[s].read.json \in {"unreadable", "null"}
            THEN Answers(inv[s], 502, "Failed to reach Gemini API")
            ELSE Translated(inv[s], inv[s].read)

\* a SAFETY candidate that carries text is answered 400
C7_Witness ==
    /\ UpstreamOk(inv[1])
    /\ inv[1].read.candidates = <<Candidate("SAFETY", "Blocked text")>>
    /\ Answers(inv[1], 400, "Response filtered for safety")

----------------------------------------------------------------------------
(* C8, under Spec *)

EarlyErrors ==
    {"Not found", TooMany, "Invalid JSON", "Missing messages or systemPrompt",
     "API key not configured"}

\* C8: an invocation issues at most one call to the upstream, none once it
\* ends at the preflight, 404, 429, invalid JSON, missing fields or missing
\* credential, and exactly one stands behind every later state.
C8_AtMostOneUpstreamCall ==
    \A s \in Slots :
        /\ inv[s].calls <= 1
        /\ inv[s].pc \in {"body", "thrown"} => inv[s].calls = 0
        /\ inv[s].pc = "done"
              /\ (inv[s].res[1].status = 204 \/ inv[s].res[1].error \in EarlyErrors)
              => inv[s].calls = 0
        /\ inv[s].pc \in {"fetch", "error", "data"} => inv[s].calls = 1

\* the upstream refused, or could not be reached, and was called once
C8_Witness ==
    /\ inv[1].calls = 1
    /\ \/ Answers(inv[1], 503, "Gemini API error 503")
       \/ Answers(inv[1], 502, "Failed to reach Gemini API")

----------------------------------------------------------------------------
(* C9, under ConcSpec *)

\* C9: with invocations interleaving at their awaits, after k POST /api/chat
\* requests of a client in one window the entry's count is k, and at most
\* RATE_LIMIT of them got past the limiter.
C9_NoIncrementLost ==
    \A c \in DOMAIN win :
        /\ c \in DOMAIN ipHits
        /\ ipHits[c].count = win[c].n
        /\ ipHits[c].start = win[c].first
        /\ win[c].adm <= RATE_LIMIT
        /\ win[c].adm <= win[c].n

\* the first request of the window is still awaiting the upstream when the
\* window's request RATE_LIMIT + 1 is rejected
C9_Witness ==
    \E c \in DOMAIN win :
        /\ win[c].n = RATE_LIMIT + 1
        /\ win[c].adm = RATE_LIMIT
        /\ inv[1].pc = "fetch"
        /\ Answers(inv[2], 429, TooMany)

----------------------------------------------------------------------------
(* C10, under Spec *)

\* C10: a request changes the table if and only if it is a POST to
\* /api/chat; it then takes one unit of its own client's quota, whatever the
\* response, and leaves every other client's entry as it was.  Nothing else
\* changes the table.
C10_OnlyChatPostsConsumeQuota ==
    [][IF \E s \in Slots : Arrived(s) /\ IsChatPost(inv'[s].req)
       THEN \A s \in Slots :
                Arrived(s) =>
                    LET c == ClientId(inv'[s].req)
                    IN  /\ ipHits' # ipHits
                        /\ DOMAIN ipHits' = DOMAIN ipHits \cup {c}
                        /\ \A d \in DOMAIN ipHits : d # c => ipHits'[d] = ipHits[d]
                        /\ ipHits'[c].count =
                              IF c \in DOMAIN ipHits /\ now - ipHits[c].start <= RATE_WINDOW
                              THEN ipHits[c].count + 1
                              ELSE 1
       ELSE ipHits' = ipHits]_vars

\* a request without connecting-IP header is answered 500 after it took the
\* last unit of the quota of "unknown"; the other client's entry stands
C10_Witness ==
    /\ Answers(inv[1], 500, "API key not configured")
    /\ inv[1].req.CFConnectingIP = null
    /\ DOMAIN ipHits = Clients
    /\ ipHits["unknown"].count = RATE_LIMIT
    /\ ipHits["203.0.113.7"].count = 1

====
